---- MODULE Spec2Model ----
(***************************************************************************)
(* Model of src/latex_plotter.py: the LaTeXPlotter class on top of the     *)
(* pyplot state machine (global rcParams, the stack of open figures, the   *)
(* current figure).                                                        *)
(*                                                                         *)
(* Lengths are Python floats in the source.  They are modelled as exact    *)
(* rationals <<numerator, denominator>> in lowest terms, so 0.8 is <<4,5>>,*)
(* 2.54 is <<127,50>> and 9.8415 is <<19683,2000>>.                         *)
(***************************************************************************)
EXTENDS Integers, Sequences, FiniteSets, TLC

(* ------------------------------ bounds -------------------------------- *)
MaxRows == 8          \* grid shapes drawn for _calculate_dimensions alone
MaxCols == 8
MaxPlotters == 2      \* LaTeXPlotter instances constructed
MaxOpen == 2          \* figures open at the same time
MaxCreate == 2        \* create_figure calls in one run
MaxSave == 2          \* save calls in one run
MaxLabelCalls == 2    \* set_axis_labels calls in one run

Shapes == (1..MaxRows) \X (1..MaxCols)
\* grids for create_figure: one Axes, a row, a table grid, a fallback grid
GridShapes == {<<1, 1>>, <<1, 2>>, <<2, 2>>, <<3, 2>>}
\* grids asked of _calculate_dimensions between the other operations
DirectShapes == {<<1, 1>>, <<3, 2>>}
\* grids of the figures whose axes are relabelled
AxesShapes == {<<1, 1>>, <<1, 2>>}
Filenames == {"plot.pdf", "example_2x1.pdf"}
Symbols == {"t"}
Units == {"sec", "ms"}
None == "None"     \* Python None as an argument
NoCall == <<>>      \* no value returned yet

VARIABLES
  plotters,    \* number of LaTeXPlotter instances constructed so far
  rcParams,    \* plt.rcParams: the overrides applied to the library defaults
  figs,        \* pyplot's open figures, oldest first; the last is current
  output,      \* external effects of the most recent save(), in order
  ret,         \* value returned by the most recent _calculate_dimensions call
  prev,        \* value returned by the call before that
  created,     \* number of create_figure calls made
  saved,       \* number of save calls made
  blank,       \* number of save calls made while no figure was open
  labelled     \* number of set_axis_labels calls made

vars == <<plotters, rcParams, figs, output, ret, prev, created, saved, blank,
          labelled>>

(* ------------------------ float arithmetic ---------------------------- *)
RECURSIVE GCD(_, _)
GCD(a, b) == IF b = 0 THEN a ELSE GCD(b, a % b)

Norm(q) == LET g == GCD(q[1], q[2]) IN <<q[1] \div g, q[2] \div g>>

\* a * b, cross-reduced before multiplying
Mul(a, b) ==
  LET g1 == GCD(a[1], b[2])
      g2 == GCD(b[1], a[2])
  IN  Norm(<<(a[1] \div g1) * (b[1] \div g2), (a[2] \div g2) * (b[2] \div g1)>>)

\* a / b, b > 0
Div(a, b) == Mul(a, <<b[2], b[1]>>)

\* a ** n, n >= 0
RECURSIVE Pow(_, _)
Pow(a, n) == IF n = 0 THEN <<1, 1>> ELSE Mul(a, Pow(a, n - 1))

\* a > b, compared over the least common denominator
Gt(a, b) ==
  LET g == GCD(a[2], b[2])
  IN  a[1] * (b[2] \div g) > b[1] * (a[2] \div g)

\* Python max(a, b): the first of the largest arguments
max(a, b) == IF Gt(b, a) THEN b ELSE a

(* ----------------------- _calculate_dimensions ------------------------ *)
base_width_cm == <<15, 1>>
min_width == <<8, 1>>
min_height == <<4, 1>>

\* every entry 3:1
special_aspects_uniform ==
  (<<1, 1>> :> <<3, 1>>) @@ (<<2, 1>> :> <<3, 1>>) @@
  (<<3, 1>> :> <<3, 1>>) @@ (<<4, 1>> :> <<3, 1>>) @@
  (<<1, 2>> :> <<3, 1>>) @@ (<<1, 3>> :> <<3, 1>>) @@
  (<<1, 4>> :> <<3, 1>>) @@ (<<2, 2>> :> <<3, 1>>)

special_aspects ==
  (<<1, 1>> :> <<3, 1>>) @@ (<<2, 1>> :> <<5, 2>>) @@
  (<<3, 1>> :> <<3, 2>>) @@ (<<4, 1>> :> <<5, 4>>) @@
  (<<1, 2>> :> <<3, 1>>) @@ (<<1, 3>> :> <<3, 1>>) @@
  (<<1, 4>> :> <<3, 1>>) @@ (<<2, 2>> :> <<5, 2>>)

\* 0.8 * (rows - 1) for 0.8 ** (rows - 1)
row_factor_product(rows) == Mul(<<4, 5>>, <<rows - 1, 1>>)

row_factor(rows) == Pow(<<4, 5>>, rows - 1)

\* 0.9 * (cols - 1) for 0.9 ** (cols - 1)
col_factor_product(cols) == Mul(<<9, 10>>, <<cols - 1, 1>>)

col_factor(cols) == Pow(<<9, 10>>, cols - 1)

\* the fallback without its two max() clamps
_calculate_dimensions_unclamped(grid_shape) ==
  IF grid_shape \in DOMAIN special_aspects
  THEN <<base_width_cm, Div(base_width_cm, special_aspects[grid_shape])>>
  ELSE LET rows == grid_shape[1]
           cols == grid_shape[2]
       IN  <<Mul(base_width_cm, col_factor(cols)),
             Mul(Div(base_width_cm, <<3, 1>>), row_factor(rows))>>

\* rows, cols unpacked in the wrong order
_calculate_dimensions_swapped(grid_shape) ==
  IF grid_shape \in DOMAIN special_aspects
  THEN <<base_width_cm, Div(base_width_cm, special_aspects[grid_shape])>>
  ELSE LET rows == grid_shape[2]
           cols == grid_shape[1]
           width == Mul(base_width_cm, col_factor(cols))
           height == Mul(Div(base_width_cm, <<3, 1>>), row_factor(rows))
       IN  <<max(width, min_width), max(height, min_height)>>

\* a one-slot cache looked up without its key
_calculate_dimensions_cached(grid_shape) ==
  IF ret # NoCall THEN ret.dims
  ELSE IF grid_shape \in DOMAIN special_aspects
  THEN <<base_width_cm, Div(base_width_cm, special_aspects[grid_shape])>>
  ELSE LET rows == grid_shape[1]
           cols == grid_shape[2]
           width == Mul(base_width_cm, col_factor(cols))
           height == Mul(Div(base_width_cm, <<3, 1>>), row_factor(rows))
       IN  <<max(width, min_width), max(height, min_height)>>

_calculate_dimensions(grid_shape) ==
  IF grid_shape \in DOMAIN special_aspects
  THEN LET aspect_ratio == special_aspects[grid_shape]
       IN  <<base_width_cm, Div(base_width_cm, aspect_ratio)>>
  ELSE LET rows == grid_shape[1]
           cols == grid_shape[2]
           width == Mul(base_width_cm, col_factor(cols))
           height == Mul(Div(base_width_cm, <<3, 1>>), row_factor(rows))
       IN  <<max(width, min_width), max(height, min_height)>>

(* --------------------------- _setup_style ----------------------------- *)
NoOverrides == [k \in {} |-> None]

LatexStyle ==
  [usetex |-> TRUE,
   font_family |-> "serif",
   font_serif |-> <<"Times New Roman">>,
   font_size |-> 10,
   axes_labelsize |-> 8,
   legend_fontsize |-> 8,
   xtick_labelsize |-> 8,
   ytick_labelsize |-> 8,
   axes_titlesize |-> 10,
   lines_linewidth |-> <<1, 2>>,
   latex_preamble |-> "babel[english,russian] fontenc[T2A] inputenc[utf8]"]

\* dict.update: the keys of d are set, the other keys keep their values
update(rc, d) ==
  [k \in (DOMAIN rc) \cup (DOMAIN d) |-> IF k \in DOMAIN d THEN d[k] ELSE rc[k]]

\* the rcParams.update call left out
_setup_style_skipped(rc) == rc

_setup_style(rc) == update(rc, LatexStyle)

(* ------------------------- axes and figures --------------------------- *)
\* unit and symbol in each other's place
format_label_unit_first(symbol, units) == "$" \o units \o "$, " \o symbol

\* fr'${xlabel}$, {xunits}'
format_label(symbol, units) == "$" \o symbol \o "$, " \o units

\* a fresh drawing surface as plt.subplots delivers it
NewAxes ==
  [xlabel |-> "", ylabel |-> "", spines_hidden |-> {}, left_position |-> "outward",
   grid |-> FALSE, setups |-> 0, xargs |-> <<>>, yargs |-> <<>>]

_setup_axes(ax) ==
  [ax EXCEPT !.spines_hidden = {"top", "right"},
             !.left_position = "zero",
             !.grid = TRUE,
             !.xlabel = "$x$, sec",
             !.ylabel = "$y$, rad",
             !.setups = @ + 1]

\* multiplied by 2.54 instead of divided
cm_to_inch_times(cm) == Mul(cm, <<127, 50>>)

\* width_cm/2.54
cm_to_inch(cm) == Div(cm, <<127, 50>>)

\* what plt.subplots(rows, cols) hands back as `axes` (squeeze=True)
subplots_axes(grid_shape) ==
  LET rows == grid_shape[1]
      cols == grid_shape[2]
  IN  IF rows = 1 /\ cols = 1 THEN [kind |-> "Axes", shape |-> <<>>]
      ELSE IF rows = 1 THEN [kind |-> "ndarray", shape |-> <<cols>>]
      ELSE IF cols = 1 THEN [kind |-> "ndarray", shape |-> <<rows>>]
      ELSE [kind |-> "ndarray", shape |-> <<rows, cols>>]

\* np.array([axes]) when a single Axes came back
wrap(axes) ==
  IF axes.kind = "Axes" THEN [kind |-> "ndarray", shape |-> <<1>>] ELSE axes

\* number of elements of axes.flat
RECURSIVE size(_)
size(shape) == IF shape = <<>> THEN 1 ELSE Head(shape) * size(Tail(shape))

\* pyplot numbers a new figure one above the largest open number
next_num == IF figs = <<>> THEN 1 ELSE figs[Len(figs)].num + 1

\* plt.gcf() with no figure open makes an empty one: no LaTeXPlotter made it
BlankFigure ==
  [num |-> 1, serial |-> 0, creator |-> 0, grid_shape |-> <<0, 0>>,
   figsize |-> "rcParams", handles |-> [kind |-> "ndarray", shape |-> <<0>>],
   axes |-> <<>>, adjusted |-> FALSE]

gcf == IF figs = <<>> THEN BlankFigure ELSE figs[Len(figs)]

Ident(fig) == [serial |-> fig.serial, num |-> fig.num, creator |-> fig.creator]

(* ----------------------------- operations ----------------------------- *)
Init ==
  /\ plotters = 0
  /\ rcParams = NoOverrides
  /\ figs = <<>>
  /\ output = <<>>
  /\ ret = NoCall
  /\ prev = NoCall
  /\ created = 0
  /\ saved = 0
  /\ blank = 0
  /\ labelled = 0

\* LaTeXPlotter()
New ==
  /\ plotters < MaxPlotters
  /\ plotters' = plotters + 1
  /\ rcParams' = _setup_style(rcParams)
  /\ UNCHANGED <<figs, output, ret, prev, created, saved, blank, labelled>>

CalculateDimensions(self, grid_shape) ==
  /\ self \in 1..plotters
  /\ ret' = [grid_shape |-> grid_shape, dims |-> _calculate_dimensions(grid_shape)]
  /\ prev' = ret
  /\ UNCHANGED <<plotters, rcParams, figs, output, created, saved, blank,
                 labelled>>

CreateFigure(self, grid_shape) ==
  /\ self \in 1..plotters
  /\ Len(figs) < MaxOpen
  /\ created < MaxCreate
  /\ LET dims == _calculate_dimensions(grid_shape)
         figsize == <<cm_to_inch(dims[1]), cm_to_inch(dims[2])>>
         axes == wrap(subplots_axes(grid_shape))
         n == grid_shape[1] * grid_shape[2]
         fig == [num |-> next_num, serial |-> created + 1, creator |-> self,
                 grid_shape |-> grid_shape, figsize |-> figsize,
                 handles |-> axes,
                 axes |-> [i \in 1..n |->
                             IF axes.kind = "ndarray" /\ i <= size(axes.shape)
                             THEN _setup_axes(NewAxes) ELSE NewAxes],
                 adjusted |-> axes.kind = "ndarray"]
     IN  figs' = Append(figs, fig)
  /\ created' = created + 1
  /\ UNCHANGED <<plotters, rcParams, output, ret, prev, saved, blank, labelled>>

SetAxisLabels(self, f, i, xlabel, ylabel, xunits, yunits) ==
  /\ self \in 1..plotters
  /\ labelled < MaxLabelCalls
  /\ f \in 1..Len(figs)
  /\ i \in 1..Len(figs[f].axes)
  /\ LET ax == figs[f].axes[i]
         ax1 == IF xlabel # None
                THEN [ax EXCEPT !.xlabel = format_label(xlabel, xunits),
                                !.xargs = <<xlabel, xunits>>]
                ELSE ax
         ax2 == IF ylabel # None
                THEN [ax1 EXCEPT !.ylabel = format_label(ylabel, yunits),
                                 !.yargs = <<ylabel, yunits>>]
                ELSE ax1
     IN  figs' = [figs EXCEPT ![f].axes[i] = ax2]
  /\ labelled' = labelled + 1
  /\ UNCHANGED <<plotters, rcParams, output, ret, prev, created, saved, blank>>

\* save() without its plt.close()
Save_keep_open(self, filename, dpi) ==
  /\ self \in 1..plotters
  /\ saved < MaxSave
  /\ LET fig == gcf
     IN  /\ output' = <<[op |-> "savefig", by |-> self, file |-> filename,
                         dpi |-> dpi, fig |-> Ident(fig)],
                        [op |-> "close", by |-> self, file |-> None, dpi |-> 0,
                         fig |-> Ident(fig)],
                        [op |-> "print", by |-> self,
                         file |-> "Plot saved to " \o filename, dpi |-> 0,
                         fig |-> Ident(fig)]>>
         /\ figs' = figs
  /\ saved' = saved + 1
  /\ blank' = IF figs = <<>> THEN blank + 1 ELSE blank
  /\ UNCHANGED <<plotters, rcParams, ret, prev, created, labelled>>

Save(self, filename, dpi) ==
  /\ self \in 1..plotters
  /\ saved < MaxSave
  /\ LET fig == gcf
     IN  /\ output' = <<[op |-> "savefig", by |-> self, file |-> filename,
                         dpi |-> dpi, fig |-> Ident(fig)],
                        [op |-> "close", by |-> self, file |-> None, dpi |-> 0,
                         fig |-> Ident(fig)],
                        [op |-> "print", by |-> self,
                         file |-> "Plot saved to " \o filename, dpi |-> 0,
                         fig |-> Ident(fig)]>>
         /\ figs' = IF figs = <<>> THEN <<>> ELSE SubSeq(figs, 1, Len(figs) - 1)
  /\ saved' = saved + 1
  /\ blank' = IF figs = <<>> THEN blank + 1 ELSE blank
  /\ UNCHANGED <<plotters, rcParams, ret, prev, created, labelled>>

\* every operation of the class, each called on the newest plotter with the
\* arguments of example1x1()
Next ==
  \/ New
  \/ \E s \in DirectShapes : CalculateDimensions(plotters, s)
  \/ \E s \in DirectShapes : CreateFigure(plotters, s)
  \/ SetAxisLabels(plotters, Len(figs), 1, "t", "value", "sec", "rad")
  \/ Save(plotters, "example1x1.pdf", 50)

Spec == Init /\ [][Next]_vars

\* the life of figures: construct plotters, create figures, save them
NextFigures ==
  \/ New
  \/ \E self \in 1..MaxPlotters, s \in GridShapes : CreateFigure(self, s)
  \/ \E self \in 1..MaxPlotters, fn \in Filenames : Save(self, fn, 50)

SpecFigures == Init /\ [][NextFigures]_vars

\* one constructed plotter
InitOne ==
  /\ plotters = 1
  /\ rcParams = _setup_style(NoOverrides)
  /\ figs = <<>>
  /\ output = <<>>
  /\ ret = NoCall
  /\ prev = NoCall
  /\ created = 0
  /\ saved = 0
  /\ blank = 0
  /\ labelled = 0

\* figures and their axis labels, with every combination of label arguments
NextAxes ==
  \/ \E s \in AxesShapes : CreateFigure(1, s)
  \/ \E f \in 1..MaxOpen, i \in 1..2,
        xl \in Symbols \cup {None}, yl \in Symbols \cup {None},
        xu \in Units, yu \in Units :
        SetAxisLabels(1, f, i, xl, yl, xu, yu)

SpecAxes == InitOne /\ [][NextAxes]_vars

\* _calculate_dimensions on its own
NextDims == \E s \in Shapes : CalculateDimensions(1, s)

SpecDims == InitOne /\ [][NextDims]_vars

(* ------------------------------ claims -------------------------------- *)
Ge(a, b) == ~Gt(b, a)

RECURSIVE IPow(_, _)
IPow(b, n) == IF n = 0 THEN 1 ELSE b * IPow(b, n - 1)

\* the aspect table as the specification lists it
AspectKeys ==
  {<<1, 1>>, <<2, 1>>, <<3, 1>>, <<4, 1>>, <<1, 2>>, <<1, 3>>, <<1, 4>>, <<2, 2>>}

AspectRatio(s) ==
  CASE s = <<1, 1>> -> <<3, 1>>
    [] s = <<2, 1>> -> <<5, 2>>
    [] s = <<3, 1>> -> <<3, 2>>
    [] s = <<4, 1>> -> <<5, 4>>
    [] s = <<1, 2>> -> <<3, 1>>
    [] s = <<1, 3>> -> <<3, 1>>
    [] s = <<1, 4>> -> <<3, 1>>
    [] s = <<2, 2>> -> <<5, 2>>

\* max(15.0 * 0.9^(cols-1), 8.0), from integer powers
ExpectedWidth(cols) ==
  LET k == cols - 1
  IN  IF 15 * IPow(9, k) < 8 * IPow(10, k) THEN <<8, 1>>
      ELSE Norm(<<15 * IPow(9, k), IPow(10, k)>>)

\* max(5.0 * 0.8^(rows-1), 4.0), from integer powers
ExpectedHeight(rows) ==
  LET k == rows - 1
  IN  IF 5 * IPow(8, k) < 4 * IPow(10, k) THEN <<4, 1>>
      ELSE Norm(<<5 * IPow(8, k), IPow(10, k)>>)

\* C1: every pair returned for rows, cols >= 1 has width >= 8.0 cm and
\* height >= 4.0 cm, on the table path and on the fallback path alike.
C1_MinimumSize ==
  ret # NoCall =>
    /\ ret.grid_shape[1] >= 1 /\ ret.grid_shape[2] >= 1
    /\ Ge(ret.dims[1], <<8, 1>>)
    /\ Ge(ret.dims[2], <<4, 1>>)

\* a table shape (smallest table height, 5.0) followed by a clamped fallback
C1_Witness ==
  /\ prev # NoCall /\ ret # NoCall
  /\ prev.grid_shape = <<1, 1>> /\ prev.dims[2] = <<5, 1>>
  /\ ret.grid_shape = <<3, 8>> /\ ret.dims = <<<<8, 1>>, <<4, 1>>>>

\* C2: for each of the eight table shapes the result is exactly
\* (15.0, 15.0 / ratio), unclamped: (1,1) -> (15, 5), (2,2) -> (15, 6).
C2_TableLookup ==
  (ret # NoCall /\ ret.grid_shape \in AspectKeys) =>
    /\ ret.dims[1] = <<15, 1>>
    /\ Mul(ret.dims[2], AspectRatio(ret.grid_shape)) = <<15, 1>>
    /\ ret.grid_shape = <<1, 1>> => ret.dims = <<<<15, 1>>, <<5, 1>>>>
    /\ ret.grid_shape = <<2, 2>> => ret.dims = <<<<15, 1>>, <<6, 1>>>>
    /\ ret.grid_shape = <<3, 1>> => ret.dims = <<<<15, 1>>, <<10, 1>>>>
    /\ ret.grid_shape = <<4, 1>> => ret.dims = <<<<15, 1>>, <<12, 1>>>>

C2_Witness ==
  /\ prev # NoCall /\ ret # NoCall
  /\ prev.grid_shape = <<2, 2>> /\ prev.dims[2] = <<6, 1>>
  /\ ret.grid_shape = <<4, 1>> /\ ret.dims[2] = <<12, 1>>

\* C3: for every shape that is not a table key, width =
\* max(15.0 * 0.9^(cols-1), 8.0) and height = max(5.0 * 0.8^(rows-1), 4.0);
\* (5,5) gives width 9.8415 and height 4.0.
C3_Fallback ==
  (ret # NoCall /\ ret.grid_shape \notin AspectKeys) =>
    /\ ret.dims[1] = ExpectedWidth(ret.grid_shape[2])
    /\ ret.dims[2] = ExpectedHeight(ret.grid_shape[1])
    /\ ret.grid_shape = <<5, 5>> => ret.dims = <<<<19683, 2000>>, <<4, 1>>>>

C3_Witness ==
  /\ prev # NoCall /\ ret # NoCall
  /\ prev.grid_shape = <<5, 5>> /\ prev.dims = <<<<19683, 2000>>, <<4, 1>>>>
  /\ ret.grid_shape = <<1, 7>> /\ ret.dims = <<<<8, 1>>, <<5, 1>>>>

\* C4 as stated: for fixed cols and rows r1 <= r2, the height for (r1, cols)
\* is at least the height for (r2, cols).
C4_HeightNonIncreasing ==
  (/\ prev # NoCall /\ ret # NoCall
   /\ prev.grid_shape[2] = ret.grid_shape[2]
   /\ prev.grid_shape[1] <= ret.grid_shape[1]) =>
    Ge(prev.dims[2], ret.dims[2])

\* C4 amended: for fixed cols and rows r1 <= r2 where (r2, cols) is not a
\* table key, the height for (r1, cols) is at least the height for (r2, cols).
C4_HeightNonIncreasingOffTable ==
  (/\ prev # NoCall /\ ret # NoCall
   /\ prev.grid_shape[2] = ret.grid_shape[2]
   /\ prev.grid_shape[1] <= ret.grid_shape[1]
   /\ ret.grid_shape \notin AspectKeys) =>
    Ge(prev.dims[2], ret.dims[2])

C4_Witness ==
  /\ prev # NoCall /\ ret # NoCall
  /\ prev.grid_shape = <<4, 1>> /\ prev.dims[2] = <<12, 1>>
  /\ ret.grid_shape = <<5, 1>> /\ ret.dims[2] = <<4, 1>>

\* C5: for fixed rows and cols c1 <= c2 with (rows, c1) and (rows, c2) both
\* off the table, the width for (rows, c1) is at least that for (rows, c2).
C5_WidthNonIncreasing ==
  (/\ prev # NoCall /\ ret # NoCall
   /\ prev.grid_shape[1] = ret.grid_shape[1]
   /\ prev.grid_shape[2] <= ret.grid_shape[2]
   /\ prev.grid_shape \notin AspectKeys
   /\ ret.grid_shape \notin AspectKeys) =>
    Ge(prev.dims[1], ret.dims[1])

C5_Witness ==
  /\ prev # NoCall /\ ret # NoCall
  /\ prev.grid_shape = <<5, 5>> /\ prev.dims[1] = <<19683, 2000>>
  /\ ret.grid_shape = <<5, 6>> /\ ret.dims[1] = <<177147, 20000>>

C7_CreateFigure ==
  [][created' = created + 1 =>
       /\ Len(figs') = Len(figs) + 1
       /\ SubSeq(figs', 1, Len(figs)) = figs
       /\ LET fig == figs'[Len(figs')]
              rows == fig.grid_shape[1]
              cols == fig.grid_shape[2]
              dims == _calculate_dimensions(fig.grid_shape)
          IN  /\ Mul(fig.figsize[1], <<254, 100>>) = dims[1]
              /\ Mul(fig.figsize[2], <<254, 100>>) = dims[2]
              /\ fig.handles.kind = "ndarray"
              /\ size(fig.handles.shape) = rows * cols
              /\ (rows = 1 /\ cols = 1) => fig.handles.shape = <<1>>
              /\ Len(fig.axes) = rows * cols
              /\ \A i \in 1..Len(fig.axes) : fig.axes[i].setups = 1]_vars

\* a 1x1 figure (15 x 5 cm) and a 2x2 figure (15 x 6 cm) are open
C7_Witness ==
  /\ Len(figs) = 2
  /\ figs[1].grid_shape = <<1, 1>>
  /\ figs[1].handles.shape = <<1>>
  /\ figs[1].figsize = <<<<750, 127>>, <<250, 127>>>>
  /\ figs[2].grid_shape = <<2, 2>>
  /\ Len(figs[2].axes) = 4
  /\ figs[2].figsize = <<<<750, 127>>, <<300, 127>>>>

\* C8: an axis starts with labels '$x$, sec' and '$y$, rad'; afterwards its
\* x label is '$symbol$, unit' of the latest call that passed an xlabel
\* (likewise y); a call with xlabel=None leaves the x label alone whatever
\* xunits is, one with ylabel=None leaves the y label alone whatever yunits
\* is, and no call changes the labels of another axis.
C8_Labels ==
  /\ [](\A f \in 1..Len(figs) : \A i \in 1..Len(figs[f].axes) :
          LET ax == figs[f].axes[i]
          IN  /\ ax.xlabel = IF ax.xargs = <<>> THEN "$x$, sec"
                             ELSE "$" \o ax.xargs[1] \o "$, " \o ax.xargs[2]
              /\ ax.ylabel = IF ax.yargs = <<>> THEN "$y$, rad"
                             ELSE "$" \o ax.yargs[1] \o "$, " \o ax.yargs[2])
  /\ [][\A f \in 1..Len(figs) : \A i \in 1..Len(figs[f].axes) :
        \A xl \in Symbols \cup {None}, yl \in Symbols \cup {None},
           xu \in Units, yu \in Units :
          SetAxisLabels(1, f, i, xl, yl, xu, yu) =>
            /\ xl = None => figs'[f].axes[i].xlabel = figs[f].axes[i].xlabel
            /\ yl = None => figs'[f].axes[i].ylabel = figs[f].axes[i].ylabel
            /\ Len(figs') = Len(figs)
            /\ \A g \in 1..Len(figs) : \A j \in 1..Len(figs[g].axes) :
                 <<g, j>> # <<f, i>> => figs'[g].axes[j] = figs[g].axes[j]]_vars

\* one axis relabelled twice on x (the later call wins), never on y, while
\* its neighbour keeps the defaults
C8_Witness ==
  /\ Len(figs) = 1 /\ labelled = 2
  /\ figs[1].grid_shape = <<1, 2>>
  /\ figs[1].axes[1].xlabel = "$t$, ms"
  /\ figs[1].axes[1].ylabel = "$y$, rad"
  /\ figs[1].axes[2].xlabel = "$x$, sec"

\* C9 as stated: after n create_figure calls and m <= n save calls exactly
\* n - m figures remain open.
C9_OpenCount == saved <= created => Len(figs) = created - saved

\* C9 amended: save writes the current figure (the newest open one, whichever
\* plotter created it), closes exactly that figure and then prints the
\* confirmation naming the file; a save made while no figure is open writes
\* and closes a blank figure made for the call; so after n create_figure
\* calls and m save calls, b of them made with no figure open, exactly
\* n - (m - b) figures remain open.
C9_SaveCurrent ==
  /\ [](Len(figs) = created - (saved - blank))
  /\ [][saved' = saved + 1 =>
          /\ Len(output') = 3
          /\ output'[1].op = "savefig" /\ output'[2].op = "close"
          /\ output'[3].op = "print"
          /\ output'[3].file = "Plot saved to " \o output'[1].file
          /\ output'[2].fig = output'[1].fig
          /\ IF figs = <<>>
             THEN /\ figs' = <<>>
                  /\ output'[1].fig.creator = 0
                  /\ blank' = blank + 1
             ELSE /\ output'[1].fig = Ident(figs[Len(figs)])
                  /\ figs' = SubSeq(figs, 1, Len(figs) - 1)
                  /\ blank' = blank]_vars

\* plotter 2 saved the figure plotter 1 created second; the first stays open
C9_Witness ==
  /\ created = 2 /\ saved = 1 /\ blank = 0 /\ Len(figs) = 1
  /\ output # <<>>
  /\ output[1].by = 2 /\ output[1].fig.creator = 1 /\ output[1].fig.serial = 2
  /\ figs[1].serial = 1

\* C10: the style has been applied before any figure exists, and after the
\* first and every later construction the global style is the same fixed set.
C10_StyleFirst ==
  /\ (created > 0 \/ figs # <<>> \/ saved > 0) => rcParams = LatexStyle
  /\ plotters >= 1 =>
       /\ rcParams = LatexStyle
       /\ rcParams.usetex = TRUE /\ rcParams.font_family = "serif"
       /\ rcParams.font_size = 10 /\ rcParams.axes_labelsize = 8
       /\ rcParams.lines_linewidth = <<1, 2>>

C10_Witness == plotters = 2 /\ Len(figs) = 1 /\ rcParams = LatexStyle
====
